---- MODULE Spec2Model ----
(***************************************************************************)
(* Safety-stock calculator (src/app_v5.py), a Streamlit script.  Every     *)
(* widget interaction re-runs the script from the top; the state kept      *)
(* between runs is the uploaded file and the widgets' values.  One action  *)
(* of the model is one run of the script caused by one interaction.        *)
(*                                                                         *)
(* Numbers.  Floats that can be NaN or infinite are records                *)
(* [k, n, d]: k = "num" is the rational n/d in lowest terms, k = "nan" and *)
(* k = "inf" are the IEEE markers.  z = norm.ppf(p) is carried in          *)
(* thousandths; ceil(z * sqrt(v)) is computed exactly on that value.       *)
(***************************************************************************)
EXTENDS Integers, Sequences, FiniteSets, TLC

\* ---------------------------------------------------------------- bounds
MaxRows == 3
MaxEdits == 1

\* ------------------------------------------------------ program constants
DefaultNivel == 95
\* np.float64(nan).astype(int) on x86-64 is the int64 minimum; TLC integers
\* are 32-bit, so the value is represented by a negative power of two.
Int64MinStandIn == -32768

\* ------------------------------------------------------------- numbers
RECURSIVE GCD(_, _)
GCD(a, b) == IF b = 0 THEN a ELSE GCD(b, a % b)

Abs(n) == IF n < 0 THEN -n ELSE n

NaN == [k |-> "nan", n |-> 0, d |-> 1]
Inf(sign) == [k |-> "inf", n |-> sign, d |-> 1]

\* the rational num/den, den > 0, in lowest terms
Frac(num, den) ==
    LET g == GCD(Abs(num), den)
    IN [k |-> "num", n |-> num \div g, d |-> den \div g]

Num(n) == Frac(n, 1)

IsNum(x) == x.k = "num"

\* float addition: NaN is absorbing
FAdd(x, y) ==
    IF IsNum(x) /\ IsNum(y) THEN Frac(x.n * y.d + y.n * x.d, x.d * y.d)
    ELSE NaN

\* a / b on float64 Series: division by zero gives inf or nan, no exception
FDiv(a, b) ==
    IF b = 0 THEN (IF a = 0 THEN NaN ELSE Inf(IF a > 0 THEN 1 ELSE -1))
    ELSE IF b > 0 THEN Frac(a, b) ELSE Frac(-a, -b)

\* Series.round(2): round half to even on the hundredths
Round2(x) ==
    IF ~IsNum(x) THEN x
    ELSE LET q == (100 * x.n) \div x.d
             r == (100 * x.n) - q * x.d
             h == IF 2 * r < x.d THEN q
                  ELSE IF 2 * r > x.d THEN q + 1
                  ELSE IF q % 2 = 0 THEN q ELSE q + 1
         IN Frac(h, 100)

\* ------------------------------------------------------------- columns
num_cols == <<"Lead Time medio (meses)", "Desvio Padrao LT (meses)",
              "Consumo Medio Mensal (un)", "Desvio Padrao Consumo (un)",
              "Valor Unit", "Estoque inicial (unidades)",
              "Estoque de Seguranca (unidades)">>
str_cols == <<"Criticidade", "Curva", "SKU">>

\* columns the script reads without validating them
unchecked_cols == {"Empresa", "Classe", "Descricao_do_Material"}

Range(s) == {s[i] : i \in DOMAIN s}

columns_template == Range(num_cols) \cup Range(str_cols) \cup unchecked_cols
                    \cup {"Plano de Demanda (un/mes)"}

\* ------------------------------------------------------ input alphabet
\* raw spreadsheet cells of a numeric column: a number or a text
Cell(n) == [k |-> "num", v |-> n]
TextCell == [k |-> "txt", v |-> 0]

SkuCodes == <<"s1", "S2", "S1", "s2">>
SkuAt(i) == SkuCodes[((i - 1) % Len(SkuCodes)) + 1]

RawRow(crit, curva, lt, dplt, cons, dpcons, ss) ==
    [Empresa |-> "E1", SKU |-> "", Descricao |-> "PARAFUSO",
     Criticidade |-> crit, Curva |-> curva,
     LT |-> Cell(lt), DP_LT |-> Cell(dplt), Consumo |-> Cell(cons),
     DP_Consumo |-> Cell(dpcons), Valor_Unit |-> Cell(2),
     Estoque_Seguranca |-> ss]

\* one-row sheets: every kind of classification pair on fixed statistics, and
\* every sign of the statistics on a mapped pair entered in lower case
DetailRows ==
    {RawRow(crit, curva, 1, -1, 3, -2, Cell(2)) :
        crit \in {"x", "W"}, curva \in {"a", "D"}}
    \cup {RawRow("x", "a", lt, -1, cons, dpcons, Cell(ss)) :
            lt \in {-2, -1, 1}, cons \in {-3, 0, 3},
            dpcons \in {-2, 0}, ss \in {0, 2}}

\* rows of the multi-row sheets, which exercise the aggregation
BatchRows ==
    {RawRow("X", "A", 1, 0, 3, 2, Cell(2)),
     RawRow("X", "B", 1, 0, 3, 2, Cell(2)),
     RawRow("W", "A", 1, 0, 3, 2, Cell(2))}

\* the row of the sheets that lack a column; its stock cell is a text
SampleRow == RawRow("W", "D", 1, 0, 3, 2, TextCell)

WithSkus(rows) == [i \in DOMAIN rows |-> [rows[i] EXCEPT !.SKU = SkuAt(i)]]

Sheets ==
    {WithSkus(<<r>>) : r \in DetailRows}
    \cup UNION {{WithSkus(s) : s \in [1..n -> BatchRows]} : n \in 1..MaxRows}

\* uploaded workbooks: complete sheets, and sheets lacking one column
Files ==
    {[cols |-> columns_template, rows |-> s] : s \in Sheets}
    \cup {[cols |-> columns_template \ {c},
           rows |-> WithSkus(<<SampleRow>>)] :
            c \in columns_template}

NoFile == [cols |-> {}, rows |-> <<>>]

\* cells the operator edits in the matrix editor, and the levels typed
EditedCells == {<<"X", "A">>, <<"X", "B">>, <<"Z", "C">>}
Levels == {50, 99}
\* search texts typed, and selections made in the SKU multiselect
Buscas == {"", "S2"}
SkuChoices == {{}, {"S1"}}

\* ---------------------------------------------------------- ingestion
UpperOmitted(s) == s

\* str.upper() on the labels of the input alphabet
Upper(s) ==
    CASE s = "x" -> "X" [] s = "y" -> "Y" [] s = "z" -> "Z"
      [] s = "a" -> "A" [] s = "b" -> "B" [] s = "c" -> "C"
      [] s = "s1" -> "S1" [] s = "s2" -> "S2"
      [] OTHER -> s

\* pd.to_numeric(errors='coerce') followed by fillna(0)
ToNumeric(cell) == IF cell.k = "num" THEN cell.v ELSE 0

RECURSIVE FirstMissing(_, _)
FirstMissing(names, cols) ==
    IF names = <<>> THEN ""
    ELSE IF Head(names) \notin cols THEN Head(names)
    ELSE FirstMissing(Tail(names), cols)

MissingRequiredNumOnly(cols) == FirstMissing(num_cols, cols)

\* the column named by st.error, "" when every required column is present
MissingRequired(cols) ==
    IF FirstMissing(num_cols, cols) # "" THEN FirstMissing(num_cols, cols)
    ELSE FirstMissing(str_cols, cols)

Normalize(r) ==
    [Empresa |-> r.Empresa, Descricao |-> r.Descricao,
     SKU |-> Upper(r.SKU),
     Criticidade |-> Upper(r.Criticidade),
     Curva |-> Upper(r.Curva),
     LT |-> ToNumeric(r.LT), DP_LT |-> ToNumeric(r.DP_LT),
     Consumo |-> ToNumeric(r.Consumo), DP_Consumo |-> ToNumeric(r.DP_Consumo),
     Valor_Unit |-> ToNumeric(r.Valor_Unit),
     Estoque_Seguranca |-> ToNumeric(r.Estoque_Seguranca)]

LoadDf(f) == [i \in DOMAIN f.rows |-> Normalize(f.rows[i])]

\* ------------------------------------------------ service-level matrix
CritKeys == <<"X", "Y", "Z">>
CurvaKeys == <<"A", "B", "C">>

matriz_default ==
    [c \in Range(CritKeys) |-> [v \in Range(CurvaKeys) |-> DefaultNivel]]

\* norm.ppf(nivel / 100) in thousandths
NormPpfMilli(nivel) ==
    CASE nivel = 50 -> 0
      [] nivel = 90 -> 1282
      [] nivel = 95 -> 1645
      [] nivel = 98 -> 2054
      [] nivel = 99 -> 2326

\* -------------------------------------------------- per-record calculation
\* crit in matriz_editada.index and curva in matriz_editada.columns
Mapped(crit, curva) == crit \in Range(CritKeys) /\ curva \in Range(CurvaKeys)

ServiceLevelFixed90(M, crit, curva) ==
    IF Mapped(crit, curva) THEN M[crit][curva] ELSE 90

\* nivel: the matrix cell, or the default when the pair is not mapped
ServiceLevel(M, crit, curva) ==
    IF Mapped(crit, curva) THEN M[crit][curva] ELSE DefaultNivel

VarDemNotSquared(row) == (row.LT + 1) * row.DP_Consumo

\* var_dem = periodo * sd ** 2 and var_lt = mean ** 2 * sd_lt ** 2
VarDem(row) == (row.LT + 1) * (row.DP_Consumo * row.DP_Consumo)
VarLt(row) == (row.Consumo * row.Consumo) * (row.DP_LT * row.DP_LT)

\* least k >= from with k >= (zm / 1000) * sqrt(rad), for zm >= 0, rad >= 0
RECURSIVE CeilZSqrtFrom(_, _, _)
CeilZSqrtFrom(k, zm, rad) ==
    IF (1000 * k) * (1000 * k) >= (zm * zm) * rad THEN k
    ELSE CeilZSqrtFrom(k + 1, zm, rad)

\* ss_calc = z_val * np.sqrt(var_dem + var_lt): NaN for a negative radicand
SSCalculado(zm, rad) ==
    [nan |-> rad < 0, z |-> zm, rad |-> rad]

\* np.ceil(ss_calc).astype(int); the cast of NaN is the build's choice, cast
SSArredondado(zm, rad, cast) ==
    IF rad < 0 THEN cast ELSE CeilZSqrtFrom(0, zm, rad)

\* outcomes of casting NaN to int64 (x86-64, AArch64)
NaNCasts == {Int64MinStandIn, 0}

CoberturaNoGuard(stock, consumo) ==
    LET q == FDiv(stock, consumo)
    IN IF consumo >= 0 THEN q ELSE Num(0)

\* np.where(consumo > 0, stock / consumo, 0)
Cobertura(stock, consumo) ==
    LET q == FDiv(stock, consumo)
    IN IF consumo > 0 THEN q ELSE Num(0)

\* int64 product; the int64 minimum times v wraps to 0 or to itself
ValorSS(ss, valor_unit) ==
    IF ss = Int64MinStandIn
    THEN (IF valor_unit % 2 = 0 THEN 0 ELSE Int64MinStandIn)
    ELSE ss * valor_unit

\* (q - 1) * 100 on a float
PctOf(q) ==
    IF IsNum(q) THEN Frac((q.n - q.d) * 100, q.d) ELSE q

DiferencaPctZeroOk(ss, atual) ==
    LET q == FDiv(ss, atual)
    IN IF atual >= 0 THEN PctOf(q) ELSE NaN

\* np.where(atual > 0, (ss / atual - 1) * 100, np.nan)
DiferencaPct(ss, atual) ==
    LET q == FDiv(ss, atual)
    IN IF atual > 0 THEN PctOf(q) ELSE NaN

\* one iteration of the loop plus the column expressions for that row
CalcRow(row, idx, M, cast) ==
    LET nivel == ServiceLevel(M, row.Criticidade, row.Curva)
        zm == NormPpfMilli(nivel)
        rad == VarDem(row) + VarLt(row)
        ss == SSArredondado(zm, rad, cast)
    IN [idx |-> idx,
        Empresa |-> row.Empresa, SKU |-> row.SKU,
        Descricao |-> row.Descricao,
        Criticidade |-> row.Criticidade, Curva |-> row.Curva,
        LT |-> row.LT, DP_LT |-> row.DP_LT,
        Consumo |-> row.Consumo, DP_Consumo |-> row.DP_Consumo,
        Valor_Unit |-> row.Valor_Unit,
        Estoque_Seguranca |-> row.Estoque_Seguranca,
        Nivel |-> nivel, z |-> zm,
        SS_Calculado |-> SSCalculado(zm, rad),
        SS_Arredondado |-> ss,
        Cobertura_Atual_Meses |-> Cobertura(row.Estoque_Seguranca, row.Consumo),
        Cobertura_Calculada_Meses |-> Cobertura(ss, row.Consumo),
        Valor_SS_Calculado |-> ValorSS(ss, row.Valor_Unit),
        Diferenca_Unidades |-> ss - row.Estoque_Seguranca,
        Diferenca_pct |-> DiferencaPct(ss, row.Estoque_Seguranca)]

\* the st.warning of the default branch, issued while iterating row idx
WarningFor(row, idx) ==
    IF Mapped(row.Criticidade, row.Curva) THEN <<>>
    ELSE <<[idx |-> idx, SKU |-> row.SKU,
            Criticidade |-> row.Criticidade, Curva |-> row.Curva]>>

\* tabela = resultado[[...]].round(2): float columns rounded, integers kept
RoundRow(r) ==
    [r EXCEPT !.Cobertura_Atual_Meses = Round2(@),
              !.Cobertura_Calculada_Meses = Round2(@),
              !.Diferenca_pct = Round2(@)]

\* ------------------------------------------------------ summary matrices
\* sort order of the labels of the input alphabet
LabelOrder == <<"A", "B", "C", "D", "W", "X", "Y", "Z">>
Sorted(S) == SelectSeq(LabelOrder, LAMBDA x : x \in S)

RECURSIVE SumInt(_, _)
SumInt(S, f) ==
    IF S = {} THEN 0
    ELSE LET i == CHOOSE x \in S : TRUE IN f[i] + SumInt(S \ {i}, f)

RECURSIVE SumFloat(_, _)
SumFloat(S, f) ==
    IF S = {} THEN Num(0)
    ELSE LET i == CHOOSE x \in S : TRUE IN FAdd(f[i], SumFloat(S \ {i}, f))

\* x / n for a float x and a count n > 0
FDivCount(x, n) == IF IsNum(x) THEN Frac(x.n, x.d * n) ELSE x

\* rows of T in group (r, c); "Total" stands for every label
Group(T, r, c) ==
    {i \in DOMAIN T : (r = "Total" \/ T[i].Criticidade = r)
                      /\ (c = "Total" \/ T[i].Curva = c)}

\* aggfunc applied to the rows S of T (S is not empty)
Aggregate(aggfunc, T, S) ==
    CASE aggfunc = "sum" ->
            Num(SumInt(S, [i \in S |-> T[i].Valor_SS_Calculado]))
      [] aggfunc = "mean" ->
            FDivCount(SumFloat(S, [i \in S |-> T[i].Cobertura_Calculada_Meses]),
                      Cardinality(S))
      [] aggfunc = "count" -> Num(Cardinality(S))

\* a body cell: the aggregate of its group, fill_value=0 for an empty group
BodyCell(aggfunc, T, r, c) ==
    IF Group(T, r, c) = {} THEN Num(0)
    ELSE Aggregate(aggfunc, T, Group(T, r, c))

\* the margin over the rows of the index shown, X, Y and Z
MarginOfShown(aggfunc, T, r, c) ==
    LET S == {i \in Group(T, r, c) : T[i].Criticidade \in {"X", "Y", "Z"}}
    IN IF S = {} THEN Num(0) ELSE Aggregate(aggfunc, T, S)

\* margins=True: aggfunc over all rows of the table that fall in the margin
MarginCell(aggfunc, T, r, c) == Aggregate(aggfunc, T, Group(T, r, c))

\* pd.pivot_table(T, index='Criticidade', columns='Curva', aggfunc,
\*                fill_value=0, margins=True, margins_name='Total')
PivotTable(aggfunc, T) ==
    LET idx == Sorted({T[i].Criticidade : i \in DOMAIN T}) \o <<"Total">>
        cols == Sorted({T[i].Curva : i \in DOMAIN T}) \o <<"Total">>
    IN [index |-> idx, columns |-> cols,
        cell |-> [r \in Range(idx) |-> [c \in Range(cols) |->
                    IF r = "Total" \/ c = "Total"
                    THEN MarginCell(aggfunc, T, r, c)
                    ELSE BodyCell(aggfunc, T, r, c)]]]

\* DataFrame.reindex(labels): rows in that order, absent rows filled with NaN
Reindex(pt, labels) ==
    [index |-> labels, columns |-> pt.columns,
     cell |-> [r \in Range(labels) |-> [c \in Range(pt.columns) |->
                 IF r \in Range(pt.index) THEN pt.cell[r][c] ELSE NaN]]]

\* columns = list(columns[:-1]) + ['Total'] if 'Total' in columns
RelabelTotal(pt) ==
    IF "Total" \notin Range(pt.columns) THEN pt
    ELSE LET n == Len(pt.columns)
             new == SubSeq(pt.columns, 1, n - 1) \o <<"Total">>
             old(c) == pt.columns[CHOOSE j \in 1..n : new[j] = c]
         IN [index |-> pt.index, columns |-> new,
             cell |-> [r \in Range(pt.index) |->
                         [c \in Range(new) |-> pt.cell[r][old(c)]]]]

RowOrder == <<"X", "Y", "Z", "Total">>

SummaryMatrix(aggfunc, T) ==
    RelabelTotal(Reindex(PivotTable(aggfunc, T), RowOrder))

NoMatrix == [index |-> <<>>, columns |-> <<>>, cell |-> <<>>]

\* ------------------------------------------------------------- filters
\* str.contains(busca, case=False) on the texts of the input alphabet, none
\* of which is a proper substring of another
Contains(text, busca) == Upper(text) = Upper(busca)

RECURSIVE Iota(_, _)
Iota(i, n) == IF i > n THEN <<>> ELSE <<i>> \o Iota(i + 1, n)

\* index labels of df_filtrado: company filter, then the search text
DfFiltrado(d, emp, b) ==
    SelectSeq(Iota(1, Len(d)), LAMBDA i :
        /\ d[i].Empresa \in emp
        /\ (b = "" \/ Contains(d[i].SKU, b) \/ Contains(d[i].Descricao, b)))

SkuOptions(d, emp, b) == {d[i].SKU : i \in Range(DfFiltrado(d, emp, b))}

\* index labels of resultado: df_filtrado restricted to the selected SKUs
Selecao(d, emp, b, skus) ==
    IF skus = {} THEN DfFiltrado(d, emp, b)
    ELSE SelectSeq(DfFiltrado(d, emp, b), LAMBDA i : d[i].SKU \in skus)

RECURSIVE Flatten(_)
Flatten(ss) == IF ss = <<>> THEN <<>> ELSE Head(ss) \o Flatten(Tail(ss))

\* ---------------------------------------------------------------- state
VARIABLES
    pc,                 \* where the last run of the script ended
    uploaded_file,      \* the workbook held by the file uploader
    df,                 \* the ingested, normalised table
    erro,               \* column named by st.error or by the KeyError
    matriz_editada,     \* value of the matrix editor
    edits,              \* number of matrix edits made
    empresas, busca, skus_selecionados,   \* filter widgets
    resultado,          \* full-precision result rows of the pass
    tabela,             \* displayed result table (rounded)
    warnings,           \* st.warning messages of the pass
    matriz_valor, matriz_cobertura, matriz_count

vars == <<pc, uploaded_file, df, erro, matriz_editada, edits, empresas, busca,
          skus_selecionados, resultado, tabela, warnings,
          matriz_valor, matriz_cobertura, matriz_count>>

NoOutputs ==
    /\ resultado' = <<>>
    /\ tabela' = <<>>
    /\ warnings' = <<>>
    /\ matriz_valor' = NoMatrix
    /\ matriz_cobertura' = NoMatrix
    /\ matriz_count' = NoMatrix

Init ==
    /\ pc = "no_file"
    /\ uploaded_file = NoFile
    /\ df = <<>>
    /\ erro = ""
    /\ matriz_editada = matriz_default
    /\ edits = 0
    /\ empresas = {}
    /\ busca = ""
    /\ skus_selecionados = {}
    /\ resultado = <<>>
    /\ tabela = <<>>
    /\ warnings = <<>>
    /\ matriz_valor = NoMatrix
    /\ matriz_cobertura = NoMatrix
    /\ matriz_count = NoMatrix

\* the run reached the matrix editor and the company and search widgets
EditorRendered ==
    \/ pc \in {"idle", "empty", "calculated"}
    \/ pc \in {"keyerror_busca", "keyerror_tabela"}

\* the run reached the SKU multiselect and the button
ButtonRendered ==
    \/ pc \in {"idle", "empty", "calculated"}
    \/ pc = "keyerror_tabela"

\* columns the result table selects besides the validated ones
TabelaCols == {"Empresa", "Classe", "Descricao_do_Material"}

\* a run without the button pressed, with search text b
RunIdle(b) ==
    /\ IF b # "" /\ "Descricao_do_Material" \notin uploaded_file.cols
       THEN pc' = "keyerror_busca" /\ erro' = "Descricao_do_Material"
       ELSE pc' = "idle" /\ erro' = ""
    /\ NoOutputs

\* the file uploader receives f: validation, normalisation, sidebar
Upload(f) ==
    /\ pc = "no_file"
    /\ uploaded_file' = f
    /\ UNCHANGED <<matriz_editada, edits, busca, skus_selecionados>>
    /\ NoOutputs
    /\ IF MissingRequired(f.cols) # ""
       THEN /\ pc' = "stopped"
            /\ erro' = MissingRequired(f.cols)
            /\ df' = <<>>
            /\ empresas' = {}
       ELSE /\ df' = LoadDf(f)
            /\ IF "Empresa" \notin f.cols
               THEN pc' = "keyerror_load" /\ erro' = "Empresa" /\ empresas' = {}
               ELSE /\ pc' = "idle"
                    /\ erro' = ""
                    /\ empresas' = {f.rows[i].Empresa : i \in DOMAIN f.rows}

\* the operator types level n into cell (c, v) of the matrix editor
EditMatrix(c, v, n) ==
    /\ EditorRendered
    /\ edits < MaxEdits
    /\ n # matriz_editada[c][v]
    /\ matriz_editada' = [matriz_editada EXCEPT ![c][v] = n]
    /\ edits' = edits + 1
    /\ RunIdle(busca)
    /\ UNCHANGED <<uploaded_file, df, empresas, busca, skus_selecionados>>

\* a widget whose options change is a new widget and starts empty
KeepSkus(emp, b) ==
    IF SkuOptions(df, emp, b) = SkuOptions(df, empresas, busca)
    THEN skus_selecionados ELSE {}

SetEmpresas(emp) ==
    /\ EditorRendered
    /\ emp # empresas
    /\ empresas' = emp
    /\ skus_selecionados' = KeepSkus(emp, busca)
    /\ RunIdle(busca)
    /\ UNCHANGED <<uploaded_file, df, matriz_editada, edits, busca>>

SetBusca(b) ==
    /\ EditorRendered
    /\ b # busca
    /\ busca' = b
    /\ skus_selecionados' = KeepSkus(empresas, b)
    /\ RunIdle(b)
    /\ UNCHANGED <<uploaded_file, df, matriz_editada, edits, empresas>>

SelectSkus(skus) ==
    /\ ButtonRendered
    /\ skus # skus_selecionados
    /\ skus \subseteq SkuOptions(df, empresas, busca)
    /\ skus_selecionados' = skus
    /\ RunIdle(busca)
    /\ UNCHANGED <<uploaded_file, df, matriz_editada, edits, empresas, busca>>

\* the button: one calculation pass
Calcular ==
    /\ ButtonRendered
    /\ UNCHANGED <<uploaded_file, df, matriz_editada, edits, empresas, busca,
                   skus_selecionados>>
    /\ LET sel == Selecao(df, empresas, busca, skus_selecionados)
       IN IF sel = <<>>
          THEN pc' = "empty" /\ erro' = "" /\ NoOutputs
          ELSE \E cast \in NaNCasts :
               LET res == [j \in DOMAIN sel |->
                             CalcRow(df[sel[j]], sel[j], matriz_editada, cast)]
                   tab == [j \in DOMAIN res |-> RoundRow(res[j])]
               IN /\ resultado' = res
                  /\ warnings' = Flatten([j \in DOMAIN sel |->
                                             WarningFor(df[sel[j]], sel[j])])
                  /\ IF TabelaCols \subseteq uploaded_file.cols
                     THEN /\ pc' = "calculated"
                          /\ erro' = ""
                          /\ tabela' = tab
                          /\ matriz_valor' = SummaryMatrix("sum", tab)
                          /\ matriz_cobertura' = SummaryMatrix("mean", tab)
                          /\ matriz_count' = SummaryMatrix("count", tab)
                     ELSE /\ pc' = "keyerror_tabela"
                          /\ erro' = CHOOSE c \in TabelaCols :
                                         c \notin uploaded_file.cols
                          /\ tabela' = <<>>
                          /\ matriz_valor' = NoMatrix
                          /\ matriz_cobertura' = NoMatrix
                          /\ matriz_count' = NoMatrix

Next ==
    \/ \E f \in Files : Upload(f)
    \/ \E cell \in EditedCells, n \in Levels :
          EditMatrix(cell[1], cell[2], n)
    \/ \E emp \in SUBSET {"E1"} : SetEmpresas(emp)
    \/ \E b \in Buscas : SetBusca(b)
    \/ \E skus \in SkuChoices : SelectSkus(skus)
    \/ Calcular

Spec == Init /\ [][Next]_vars

\* ================================================================ claims
PassRan == pc \in {"calculated", "keyerror_tabela"}
Calculated == pc = "calculated"
Results == DOMAIN resultado
RawOf(j) == uploaded_file.rows[resultado[j].idx]
WarningsOf(j) == {k \in DOMAIN warnings : warnings[k].idx = resultado[j].idx}
ValidCrit == {"X", "Y", "Z"}
ValidCurva == {"A", "B", "C"}
CritSpellings == {<<"X", "X">>, <<"x", "X">>, <<"Y", "Y">>, <<"y", "Y">>,
                  <<"Z", "Z">>, <<"z", "Z">>}
CurvaSpellings == {<<"A", "A">>, <<"a", "A">>, <<"B", "B">>, <<"b", "B">>,
                   <<"C", "C">>, <<"c", "C">>}
Matrices == {matriz_valor, matriz_cobertura, matriz_count}
\* equality of two floats: NaN equals nothing
FEq(x, y) == IsNum(x) /\ IsNum(y) /\ x = y

\* C1: a record whose criticality and curve, as entered in the sheet in either
\* case, are a row and a column of the matrix gets the level of that matrix
\* cell, and no warning is issued for it.
C1_MappedPairGetsMatrixCell ==
    PassRan =>
        \A j \in Results : \A cs \in CritSpellings, vs \in CurvaSpellings :
            (RawOf(j).Criticidade = cs[1] /\ RawOf(j).Curva = vs[1]) =>
                /\ resultado[j].Nivel = matriz_editada[cs[2]][vs[2]]
                /\ WarningsOf(j) = {}

C1_Witness ==
    /\ Calculated
    /\ \E j \in Results :
        /\ RawOf(j).Criticidade = "x" /\ RawOf(j).Curva = "a"
        /\ matriz_editada["X"]["A"] = 50
        /\ resultado[j].Nivel = 50

\* C2: a record whose pair is not mapped gets level 95 and exactly one
\* warning, which names its SKU; the pass yields a table row for every record
\* of the selection, and only a column missing from the sheet aborts a pass.
C2_UnmappedPairDefaultsAndContinues ==
    /\ PassRan =>
        \A j \in Results :
            ~(resultado[j].Criticidade \in ValidCrit
              /\ resultado[j].Curva \in ValidCurva) =>
                /\ resultado[j].Nivel = 95
                /\ Cardinality(WarningsOf(j)) = 1
                /\ \A k \in WarningsOf(j) : warnings[k].SKU = resultado[j].SKU
    /\ Calculated =>
        /\ Len(tabela) = Len(resultado)
        /\ Len(tabela) =
             Cardinality({i \in DOMAIN df :
                 /\ df[i].Empresa \in empresas
                 /\ (busca = "" \/ Contains(df[i].SKU, busca)
                     \/ Contains(df[i].Descricao, busca))
                 /\ (skus_selecionados = {} \/ df[i].SKU \in skus_selecionados)})
        /\ \A j \in Results : tabela[j].Nivel = resultado[j].Nivel
    /\ pc = "keyerror_tabela" => ~(TabelaCols \subseteq uploaded_file.cols)

C2_Witness ==
    /\ Calculated
    /\ Len(tabela) >= 2
    /\ \E j \in Results :
        /\ resultado[j].Criticidade = "W"
        /\ resultado[j].Nivel = 95
        /\ Cardinality(WarningsOf(j)) = 1
    /\ \E j \in Results :
        /\ resultado[j].Criticidade = "X"
        /\ resultado[j].Nivel = 50

RequiredForCalc ==
    {"Lead Time medio (meses)", "Desvio Padrao LT (meses)",
     "Consumo Medio Mensal (un)", "Desvio Padrao Consumo (un)", "Valor Unit",
     "Estoque de Seguranca (unidades)", "Criticidade", "Curva"}

\* C3: a sheet lacking a column required for the calculation ends the run in
\* the fatal state, naming a missing column; no result row and no summary
\* matrix exists in any state of that session.
C3_MissingRequiredColumnIsFatal ==
    (uploaded_file # NoFile /\ ~(RequiredForCalc \subseteq uploaded_file.cols)) =>
        /\ pc = "stopped"
        /\ erro \notin uploaded_file.cols
        /\ erro \in Range(num_cols) \cup Range(str_cols)
        /\ resultado = <<>> /\ tabela = <<>> /\ warnings = <<>>
        /\ \A m \in Matrices : m = NoMatrix

C3_Witness ==
    /\ pc = "stopped"
    /\ "Curva" \notin uploaded_file.cols
    /\ erro = "Curva"

C5_EmptyCombinationsAreZero ==
    Calculated =>
        \A m \in Matrices :
            /\ m.index = <<"X", "Y", "Z", "Total">>
            /\ \A r \in ValidCrit, c \in ValidCurva :
                Group(tabela, r, c) = {} =>
                    /\ c \in Range(m.columns)
                    /\ m.cell[r][c] = Num(0)

SumCells(m, rs, cs) ==
    SumFloat(rs \X cs, [p \in rs \X cs |-> m.cell[p[1]][p[2]]])

\* C6 (as stated): in the value and count matrices every Total cell is the
\* sum of the cells shown that it totals.
C6_TotalsAreSumsOfCellsShown ==
    Calculated =>
        \A m \in {matriz_valor, matriz_count} :
            LET curves == Range(m.columns) \ {"Total"}
            IN /\ \A c \in curves :
                    FEq(m.cell["Total"][c], SumCells(m, ValidCrit, {c}))
               /\ \A r \in ValidCrit :
                    FEq(m.cell[r]["Total"], SumCells(m, {r}, curves))
               /\ FEq(m.cell["Total"]["Total"], SumCells(m, ValidCrit, curves))

\* C7: the Total/Total cell of the count matrix is the number of records left
\* by the company, search and SKU filters.
C7_CountTotalIsNumberOfRecords ==
    Calculated =>
        /\ matriz_count.cell["Total"]["Total"] = Num(Len(resultado))
        /\ matriz_count.cell["Total"]["Total"] =
             Num(Cardinality({i \in DOMAIN df :
                 /\ df[i].Empresa \in empresas
                 /\ (busca = "" \/ Contains(df[i].SKU, busca)
                     \/ Contains(df[i].Descricao, busca))
                 /\ (skus_selecionados = {} \/ df[i].SKU \in skus_selecionados)}))

C7_Witness ==
    /\ Calculated
    /\ Len(resultado) = 2
    /\ Len(df) = 3
    /\ skus_selecionados # {}
    /\ \E j \in Results : resultado[j].Criticidade = "W"
    /\ \E j \in Results : resultado[j].Criticidade = "X"

MeanOver(S, f) == FDivCount(SumFloat(S, f), Cardinality(S))

\* C8 (as stated): every Total cell of the coverage matrix is the mean of the
\* full-precision calculated coverage over the records it summarises.
C8_CoverageTotalsAreFullPrecisionMeans ==
    Calculated =>
        \A r \in Range(matriz_cobertura.index), c \in Range(matriz_cobertura.columns) :
            ((r = "Total" \/ c = "Total") /\ Group(resultado, r, c) # {}) =>
                FEq(matriz_cobertura.cell[r][c],
                    MeanOver(Group(resultado, r, c),
                             [i \in Results |-> resultado[i].Cobertura_Calculada_Meses]))

\* C9: a current safety stock of 0 gives the NaN marker (not 0, not infinite)
\* in the results and in the table; a positive one gives
\* (rounded / current - 1) * 100.
C9_PercentDifference ==
    PassRan =>
        \A j \in Results :
            LET atual == resultado[j].Estoque_Seguranca
                ss == resultado[j].SS_Arredondado
            IN /\ atual = 0 =>
                    /\ resultado[j].Diferenca_pct.k = "nan"
                    /\ Calculated => tabela[j].Diferenca_pct.k = "nan"
               /\ atual > 0 =>
                    resultado[j].Diferenca_pct = Frac((ss - atual) * 100, atual)

C9_Witness ==
    /\ Calculated
    /\ \E j \in Results :
        /\ resultado[j].Estoque_Seguranca = 0
        /\ resultado[j].SS_Arredondado > 0
        /\ resultado[j].Diferenca_pct = NaN
    /\ \E j \in Results : RawOf(j).Estoque_Seguranca = Cell(0)

\* C10: a mean monthly consumption of 0 gives current and calculated coverage
\* of exactly 0.
C10_ZeroConsumptionZeroCoverage ==
    PassRan =>
        \A j \in Results :
            resultado[j].Consumo = 0 =>
                /\ resultado[j].Cobertura_Atual_Meses = Num(0)
                /\ resultado[j].Cobertura_Calculada_Meses = Num(0)
                /\ Calculated =>
                    /\ tabela[j].Cobertura_Atual_Meses = Num(0)
                    /\ tabela[j].Cobertura_Calculada_Meses = Num(0)

C10_Witness ==
    /\ Calculated
    /\ \E j \in Results :
        /\ resultado[j].Consumo = 0
        /\ resultado[j].Estoque_Seguranca > 0
        /\ resultado[j].SS_Arredondado > 0
        /\ resultado[j].Cobertura_Calculada_Meses = Num(0)

====
